---------------------------- MODULE Spec2Model ----------------------------
(***************************************************************************)
(* A model of hydra (src/src/main.rs): a duplicate-file remover.  One run  *)
(* of find_and_delete_duplicate_files scans a directory, groups the files  *)
(* by normalized filename and by size, reports one keeper per duplicate    *)
(* set, and, unless --dry-run is given, removes the others after a         *)
(* confirmation read from standard input.                                  *)
(*                                                                         *)
(* Strings are sequences of one-character strings, so that the regular     *)
(* expressions, rsplit_once, trim and to_lowercase are computed character  *)
(* by character.  A path is represented by its filename: the run works in  *)
(* one directory, so the filename identifies the path.                     *)
(***************************************************************************)
EXTENDS Integers, Sequences, FiniteSets, TLC

VARIABLES
    pc,                     \* position of the run in main and in
                            \* find_and_delete_duplicate_files
    args,                   \* the arguments of the process, the program's
                            \* name first
    dry_run,                \* the --dry-run flag
    fs,                     \* the paths present in the directory
    fs_before,              \* the paths present when the run started
    todo,                   \* entries the read_dir iterator has not yielded yet
    cur,                    \* the scan loop's locals: the entry just scanned
                            \* and, when it was skipped, why (the warning)
    hashmap_name,           \* normalized filename -> Vec<FileInfo>
    iter_order,             \* iteration order of hashmap_name (fixed for one map)
    idx,                    \* position of the running loop in iter_order
    hashmap_size,           \* the report loop's sub-grouping of one name
                            \* group: the sizes, in the order the map iterates
    total_duplicates_found,
    total_files_to_delete,
    line,                   \* the raw line read from stdin (before shadowing)
    input,                  \* the trimmed, lowercased answer
    deleted_count,
    error_count,
    removals,               \* the paths passed to fs::remove_file, in order
    stdout,                 \* what println!/print! wrote, in order
    stderr,                 \* what eprintln! wrote outside the scan loop
    nf_name,                \* normalization harness: the filename given
    nf_out                  \* normalization harness: the successive results

vars == <<pc, args, dry_run, fs, fs_before, todo, cur, hashmap_name,
          iter_order, idx, hashmap_size, total_duplicates_found,
          total_files_to_delete, line, input, deleted_count, error_count,
          removals, stdout, stderr, nf_name, nf_out>>

(***************************************************************************)
(* Bounds of the model.                                                    *)
(***************************************************************************)
MaxEntries == 4     \* most entries in the scanned directory
MaxPieces == 3      \* most pieces concatenated into a harness filename
MaxApply == 2       \* most successive applications of normalize_filename

\* The values of metadata.len() and of the timestamps.  The run only tests
\* sizes for equality and only takes the minimum of timestamps, so two values
\* of each give every outcome of those tests between two files, and every
\* position of the minima in a group.
Sizes == {1, 2}
Times == {1, 2}

\* Option and Result values: <<>> is None or Err, <<x>> is Some(x) or Ok(x).
None == <<>>
Some(x) == <<x>>
Opt(S) == {None} \cup {Some(x) : x \in S}

(***************************************************************************)
(* Strings.  A string is a sequence of characters.  A printable ASCII      *)
(* character other than the grave accent, and each of \t, \n, \f, \r, is    *)
(* the string of that one character; any other character is the string    *)
(* "U+" and its code point in hexadecimal.                                 *)
(***************************************************************************)
Ascii == {
    " ", "!", "\"", "#", "$", "%", "&", "'", "(", ")", "*", "+", ",", "-",
    ".", "/", "0", "1", "2", "3", "4", "5", "6", "7", "8", "9", ":", ";", "<",
    "=", ">", "?", "@", "A", "B", "C", "D", "E", "F", "G", "H", "I", "J", "K",
    "L", "M", "N", "O", "P", "Q", "R", "S", "T", "U", "V", "W", "X", "Y", "Z",
    "[", "\\", "]", "^", "_", "U+0060", "a", "b", "c", "d", "e", "f", "g", "h",
    "i", "j", "k", "l", "m", "n", "o", "p", "q", "r", "s", "t", "u", "v", "w",
    "x", "y", "z", "{", "|", "}", "~" }

\* The decimal digits that are not ASCII: what \d of the regex crate matches
\* besides 0-9 (Unicode general category Nd; the patterns are compiled with
\* Unicode classes, the crate's default).
OtherDigits == {
    "U+0660", "U+0661", "U+0662", "U+0663", "U+0664", "U+0665", "U+0666",
    "U+0667", "U+0668", "U+0669", "U+06F0", "U+06F1", "U+06F2", "U+06F3",
    "U+06F4", "U+06F5", "U+06F6", "U+06F7", "U+06F8", "U+06F9", "U+07C0",
    "U+07C1", "U+07C2", "U+07C3", "U+07C4", "U+07C5", "U+07C6", "U+07C7",
    "U+07C8", "U+07C9", "U+0966", "U+0967", "U+0968", "U+0969", "U+096A",
    "U+096B", "U+096C", "U+096D", "U+096E", "U+096F", "U+09E6", "U+09E7",
    "U+09E8", "U+09E9", "U+09EA", "U+09EB", "U+09EC", "U+09ED", "U+09EE",
    "U+09EF", "U+0A66", "U+0A67", "U+0A68", "U+0A69", "U+0A6A", "U+0A6B",
    "U+0A6C", "U+0A6D", "U+0A6E", "U+0A6F", "U+0AE6", "U+0AE7", "U+0AE8",
    "U+0AE9", "U+0AEA", "U+0AEB", "U+0AEC", "U+0AED", "U+0AEE", "U+0AEF",
    "U+0B66", "U+0B67", "U+0B68", "U+0B69", "U+0B6A", "U+0B6B", "U+0B6C",
    "U+0B6D", "U+0B6E", "U+0B6F", "U+0BE6", "U+0BE7", "U+0BE8", "U+0BE9",
    "U+0BEA", "U+0BEB", "U+0BEC", "U+0BED", "U+0BEE", "U+0BEF", "U+0C66",
    "U+0C67", "U+0C68", "U+0C69", "U+0C6A", "U+0C6B", "U+0C6C", "U+0C6D",
    "U+0C6E", "U+0C6F", "U+0CE6", "U+0CE7", "U+0CE8", "U+0CE9", "U+0CEA",
    "U+0CEB", "U+0CEC", "U+0CED", "U+0CEE", "U+0CEF", "U+0D66", "U+0D67",
    "U+0D68", "U+0D69", "U+0D6A", "U+0D6B", "U+0D6C", "U+0D6D", "U+0D6E",
    "U+0D6F", "U+0DE6", "U+0DE7", "U+0DE8", "U+0DE9", "U+0DEA", "U+0DEB",
    "U+0DEC", "U+0DED", "U+0DEE", "U+0DEF", "U+0E50", "U+0E51", "U+0E52",
    "U+0E53", "U+0E54", "U+0E55", "U+0E56", "U+0E57", "U+0E58", "U+0E59",
    "U+0ED0", "U+0ED1", "U+0ED2", "U+0ED3", "U+0ED4", "U+0ED5", "U+0ED6",
    "U+0ED7", "U+0ED8", "U+0ED9", "U+0F20", "U+0F21", "U+0F22", "U+0F23",
    "U+0F24", "U+0F25", "U+0F26", "U+0F27", "U+0F28", "U+0F29", "U+1040",
    "U+1041", "U+1042", "U+1043", "U+1044", "U+1045", "U+1046", "U+1047",
    "U+1048", "U+1049", "U+1090", "U+1091", "U+1092", "U+1093", "U+1094",
    "U+1095", "U+1096", "U+1097", "U+1098", "U+1099", "U+17E0", "U+17E1",
    "U+17E2", "U+17E3", "U+17E4", "U+17E5", "U+17E6", "U+17E7", "U+17E8",
    "U+17E9", "U+1810", "U+1811", "U+1812", "U+1813", "U+1814", "U+1815",
    "U+1816", "U+1817", "U+1818", "U+1819", "U+1946", "U+1947", "U+1948",
    "U+1949", "U+194A", "U+194B", "U+194C", "U+194D", "U+194E", "U+194F",
    "U+19D0", "U+19D1", "U+19D2", "U+19D3", "U+19D4", "U+19D5", "U+19D6",
    "U+19D7", "U+19D8", "U+19D9", "U+1A80", "U+1A81", "U+1A82", "U+1A83",
    "U+1A84", "U+1A85", "U+1A86", "U+1A87", "U+1A88", "U+1A89", "U+1A90",
    "U+1A91", "U+1A92", "U+1A93", "U+1A94", "U+1A95", "U+1A96", "U+1A97",
    "U+1A98", "U+1A99", "U+1B50", "U+1B51", "U+1B52", "U+1B53", "U+1B54",
    "U+1B55", "U+1B56", "U+1B57", "U+1B58", "U+1B59", "U+1BB0", "U+1BB1",
    "U+1BB2", "U+1BB3", "U+1BB4", "U+1BB5", "U+1BB6", "U+1BB7", "U+1BB8",
    "U+1BB9", "U+1C40", "U+1C41", "U+1C42", "U+1C43", "U+1C44", "U+1C45",
    "U+1C46", "U+1C47", "U+1C48", "U+1C49", "U+1C50", "U+1C51", "U+1C52",
    "U+1C53", "U+1C54", "U+1C55", "U+1C56", "U+1C57", "U+1C58", "U+1C59",
    "U+A620", "U+A621", "U+A622", "U+A623", "U+A624", "U+A625", "U+A626",
    "U+A627", "U+A628", "U+A629", "U+A8D0", "U+A8D1", "U+A8D2", "U+A8D3",
    "U+A8D4", "U+A8D5", "U+A8D6", "U+A8D7", "U+A8D8", "U+A8D9", "U+A900",
    "U+A901", "U+A902", "U+A903", "U+A904", "U+A905", "U+A906", "U+A907",
    "U+A908", "U+A909", "U+A9D0", "U+A9D1", "U+A9D2", "U+A9D3", "U+A9D4",
    "U+A9D5", "U+A9D6", "U+A9D7", "U+A9D8", "U+A9D9", "U+A9F0", "U+A9F1",
    "U+A9F2", "U+A9F3", "U+A9F4", "U+A9F5", "U+A9F6", "U+A9F7", "U+A9F8",
    "U+A9F9", "U+AA50", "U+AA51", "U+AA52", "U+AA53", "U+AA54", "U+AA55",
    "U+AA56", "U+AA57", "U+AA58", "U+AA59", "U+ABF0", "U+ABF1", "U+ABF2",
    "U+ABF3", "U+ABF4", "U+ABF5", "U+ABF6", "U+ABF7", "U+ABF8", "U+ABF9",
    "U+FF10", "U+FF11", "U+FF12", "U+FF13", "U+FF14", "U+FF15", "U+FF16",
    "U+FF17", "U+FF18", "U+FF19", "U+104A0", "U+104A1", "U+104A2", "U+104A3",
    "U+104A4", "U+104A5", "U+104A6", "U+104A7", "U+104A8", "U+104A9",
    "U+10D30", "U+10D31", "U+10D32", "U+10D33", "U+10D34", "U+10D35",
    "U+10D36", "U+10D37", "U+10D38", "U+10D39", "U+10D40", "U+10D41",
    "U+10D42", "U+10D43", "U+10D44", "U+10D45", "U+10D46", "U+10D47",
    "U+10D48", "U+10D49", "U+11066", "U+11067", "U+11068", "U+11069",
    "U+1106A", "U+1106B", "U+1106C", "U+1106D", "U+1106E", "U+1106F",
    "U+110F0", "U+110F1", "U+110F2", "U+110F3", "U+110F4", "U+110F5",
    "U+110F6", "U+110F7", "U+110F8", "U+110F9", "U+11136", "U+11137",
    "U+11138", "U+11139", "U+1113A", "U+1113B", "U+1113C", "U+1113D",
    "U+1113E", "U+1113F", "U+111D0", "U+111D1", "U+111D2", "U+111D3",
    "U+111D4", "U+111D5", "U+111D6", "U+111D7", "U+111D8", "U+111D9",
    "U+112F0", "U+112F1", "U+112F2", "U+112F3", "U+112F4", "U+112F5",
    "U+112F6", "U+112F7", "U+112F8", "U+112F9", "U+11450", "U+11451",
    "U+11452", "U+11453", "U+11454", "U+11455", "U+11456", "U+11457",
    "U+11458", "U+11459", "U+114D0", "U+114D1", "U+114D2", "U+114D3",
    "U+114D4", "U+114D5", "U+114D6", "U+114D7", "U+114D8", "U+114D9",
    "U+11650", "U+11651", "U+11652", "U+11653", "U+11654", "U+11655",
    "U+11656", "U+11657", "U+11658", "U+11659", "U+116C0", "U+116C1",
    "U+116C2", "U+116C3", "U+116C4", "U+116C5", "U+116C6", "U+116C7",
    "U+116C8", "U+116C9", "U+116D0", "U+116D1", "U+116D2", "U+116D3",
    "U+116D4", "U+116D5", "U+116D6", "U+116D7", "U+116D8", "U+116D9",
    "U+116DA", "U+116DB", "U+116DC", "U+116DD", "U+116DE", "U+116DF",
    "U+116E0", "U+116E1", "U+116E2", "U+116E3", "U+11730", "U+11731",
    "U+11732", "U+11733", "U+11734", "U+11735", "U+11736", "U+11737",
    "U+11738", "U+11739", "U+118E0", "U+118E1", "U+118E2", "U+118E3",
    "U+118E4", "U+118E5", "U+118E6", "U+118E7", "U+118E8", "U+118E9",
    "U+11950", "U+11951", "U+11952", "U+11953", "U+11954", "U+11955",
    "U+11956", "U+11957", "U+11958", "U+11959", "U+11BF0", "U+11BF1",
    "U+11BF2", "U+11BF3", "U+11BF4", "U+11BF5", "U+11BF6", "U+11BF7",
    "U+11BF8", "U+11BF9", "U+11C50", "U+11C51", "U+11C52", "U+11C53",
    "U+11C54", "U+11C55", "U+11C56", "U+11C57", "U+11C58", "U+11C59",
    "U+11D50", "U+11D51", "U+11D52", "U+11D53", "U+11D54", "U+11D55",
    "U+11D56", "U+11D57", "U+11D58", "U+11D59", "U+11DA0", "U+11DA1",
    "U+11DA2", "U+11DA3", "U+11DA4", "U+11DA5", "U+11DA6", "U+11DA7",
    "U+11DA8", "U+11DA9", "U+11F50", "U+11F51", "U+11F52", "U+11F53",
    "U+11F54", "U+11F55", "U+11F56", "U+11F57", "U+11F58", "U+11F59",
    "U+16130", "U+16131", "U+16132", "U+16133", "U+16134", "U+16135",
    "U+16136", "U+16137", "U+16138", "U+16139", "U+16A60", "U+16A61",
    "U+16A62", "U+16A63", "U+16A64", "U+16A65", "U+16A66", "U+16A67",
    "U+16A68", "U+16A69", "U+16AC0", "U+16AC1", "U+16AC2", "U+16AC3",
    "U+16AC4", "U+16AC5", "U+16AC6", "U+16AC7", "U+16AC8", "U+16AC9",
    "U+16B50", "U+16B51", "U+16B52", "U+16B53", "U+16B54", "U+16B55",
    "U+16B56", "U+16B57", "U+16B58", "U+16B59", "U+16D70", "U+16D71",
    "U+16D72", "U+16D73", "U+16D74", "U+16D75", "U+16D76", "U+16D77",
    "U+16D78", "U+16D79", "U+1CCF0", "U+1CCF1", "U+1CCF2", "U+1CCF3",
    "U+1CCF4", "U+1CCF5", "U+1CCF6", "U+1CCF7", "U+1CCF8", "U+1CCF9",
    "U+1D7CE", "U+1D7CF", "U+1D7D0", "U+1D7D1", "U+1D7D2", "U+1D7D3",
    "U+1D7D4", "U+1D7D5", "U+1D7D6", "U+1D7D7", "U+1D7D8", "U+1D7D9",
    "U+1D7DA", "U+1D7DB", "U+1D7DC", "U+1D7DD", "U+1D7DE", "U+1D7DF",
    "U+1D7E0", "U+1D7E1", "U+1D7E2", "U+1D7E3", "U+1D7E4", "U+1D7E5",
    "U+1D7E6", "U+1D7E7", "U+1D7E8", "U+1D7E9", "U+1D7EA", "U+1D7EB",
    "U+1D7EC", "U+1D7ED", "U+1D7EE", "U+1D7EF", "U+1D7F0", "U+1D7F1",
    "U+1D7F2", "U+1D7F3", "U+1D7F4", "U+1D7F5", "U+1D7F6", "U+1D7F7",
    "U+1D7F8", "U+1D7F9", "U+1D7FA", "U+1D7FB", "U+1D7FC", "U+1D7FD",
    "U+1D7FE", "U+1D7FF", "U+1E140", "U+1E141", "U+1E142", "U+1E143",
    "U+1E144", "U+1E145", "U+1E146", "U+1E147", "U+1E148", "U+1E149",
    "U+1E2F0", "U+1E2F1", "U+1E2F2", "U+1E2F3", "U+1E2F4", "U+1E2F5",
    "U+1E2F6", "U+1E2F7", "U+1E2F8", "U+1E2F9", "U+1E4F0", "U+1E4F1",
    "U+1E4F2", "U+1E4F3", "U+1E4F4", "U+1E4F5", "U+1E4F6", "U+1E4F7",
    "U+1E4F8", "U+1E4F9", "U+1E5F1", "U+1E5F2", "U+1E5F3", "U+1E5F4",
    "U+1E5F5", "U+1E5F6", "U+1E5F7", "U+1E5F8", "U+1E5F9", "U+1E5FA",
    "U+1E950", "U+1E951", "U+1E952", "U+1E953", "U+1E954", "U+1E955",
    "U+1E956", "U+1E957", "U+1E958", "U+1E959", "U+1FBF0", "U+1FBF1",
    "U+1FBF2", "U+1FBF3", "U+1FBF4", "U+1FBF5", "U+1FBF6", "U+1FBF7",
    "U+1FBF8", "U+1FBF9" }

Digits == {"0", "1", "2", "3", "4", "5", "6", "7", "8", "9"} \cup OtherDigits

\* char::is_whitespace, which str::trim goes by (Unicode White_Space).
Whitespace == {
    " ", "\t", "\n", "\f", "\r", "U+000B", "U+0085", "U+00A0", "U+1680",
    "U+2000", "U+2001", "U+2002", "U+2003", "U+2004", "U+2005", "U+2006",
    "U+2007", "U+2008", "U+2009", "U+200A", "U+2028", "U+2029", "U+202F",
    "U+205F", "U+3000" }

RECURSIVE Flatten(_)
Flatten(ss) == IF ss = <<>> THEN <<>> ELSE Head(ss) \o Flatten(Tail(ss))

EndsWith(s, suf) ==
    /\ Len(suf) <= Len(s)
    /\ SubSeq(s, Len(s) - Len(suf) + 1, Len(s)) = suf

DropLast(s, n) == SubSeq(s, 1, Len(s) - n)

\* Number of digit characters at the end of s.
TrailingDigits(s) ==
    LET nondigit == {i \in 1..Len(s) : s[i] \notin Digits}
        last == IF nondigit = {} THEN 0
                ELSE CHOOSE i \in nondigit : \A j \in nondigit : j <= i
    IN  Len(s) - last

\* Index of the last "." of s, 0 when there is none (rsplit_once('.')).
LastDot(s) ==
    LET dots == {i \in 1..Len(s) : s[i] = "."}
    IN  IF dots = {} THEN 0 ELSE CHOOSE i \in dots : \A j \in dots : j <= i

(***************************************************************************)
(* normalize_filename.  A pattern is a literal, optionally one or more     *)
(* digits, and a closing literal, anchored at the end of the stem.         *)
(***************************************************************************)
\* A variant that lists the short patterns before the long ones they end.
patterns_short_first == <<
    [pre |-> <<" ", "c", "o", "p", "y">>, digits |-> FALSE, post |-> <<>>],
    [pre |-> <<" ", "c", "o", "p", "y", " ">>, digits |-> TRUE, post |-> <<>>],
    [pre |-> <<"(">>, digits |-> TRUE, post |-> <<")">>],
    [pre |-> <<" ", "(">>, digits |-> TRUE, post |-> <<")">>],
    [pre |-> <<" ", "-", " ", "C", "o", "p", "y">>, digits |-> FALSE, post |-> <<>>],
    [pre |-> <<" ", "-", " ", "C", "o", "p", "y", " ", "(">>, digits |-> TRUE,
     post |-> <<")">>] >>

patterns == <<
    [pre |-> <<" ", "c", "o", "p", "y", " ">>, digits |-> TRUE, post |-> <<>>],
    [pre |-> <<" ", "c", "o", "p", "y">>, digits |-> FALSE, post |-> <<>>],
    [pre |-> <<" ", "-", " ", "C", "o", "p", "y", " ", "(">>, digits |-> TRUE,
     post |-> <<")">>],
    [pre |-> <<" ", "-", " ", "C", "o", "p", "y">>, digits |-> FALSE, post |-> <<>>],
    [pre |-> <<" ", "(">>, digits |-> TRUE, post |-> <<")">>],
    [pre |-> <<"(">>, digits |-> TRUE, post |-> <<")">>] >>

\* Length of the suffix of s that pattern p matches, 0 when p does not match.
MatchLen(p, s) ==
    IF ~p.digits
    THEN IF EndsWith(s, p.pre) THEN Len(p.pre) ELSE 0
    ELSE IF ~EndsWith(s, p.post) THEN 0
         ELSE LET body == DropLast(s, Len(p.post))
                  d == TrailingDigits(body)
              IN  IF d >= 1 /\ EndsWith(DropLast(body, d), p.pre)
                  THEN Len(p.pre) + d + Len(p.post)
                  ELSE 0

is_match(p, s) == MatchLen(p, s) > 0

\* A variant of the loop without its break: every pattern, in order, is
\* removed from what the earlier ones left.
RECURSIVE StripFrom(_, _)
StripFrom(stem, i) ==
    IF i > Len(patterns) THEN stem
    ELSE StripFrom(DropLast(stem, MatchLen(patterns[i], stem)), i + 1)

StripEveryMatch(stem) == StripFrom(stem, 1)

\* The for loop with its break: the first pattern that matches is removed.
StripFirstMatch(stem) ==
    LET hits == {i \in 1..Len(patterns) : is_match(patterns[i], stem)}
    IN  IF hits = {} THEN stem
        ELSE LET first == CHOOSE i \in hits : \A j \in hits : i <= j
             IN  DropLast(stem, MatchLen(patterns[first], stem))

StemOf(filename) ==
    IF LastDot(filename) = 0 THEN filename
    ELSE SubSeq(filename, 1, LastDot(filename) - 1)

\* A variant that splits at the first "." instead of the last.
normalize_split_at_first_dot(filename) ==
    LET dots == {i \in 1..Len(filename) : filename[i] = "."}
        dot == IF dots = {} THEN 0
               ELSE CHOOSE i \in dots : \A j \in dots : i <= j
    IN  IF dot = 0 THEN StripFirstMatch(filename)
        ELSE StripFirstMatch(SubSeq(filename, 1, dot - 1))
             \o <<".">> \o SubSeq(filename, dot + 1, Len(filename))

\* A variant that does not put the extension back.
normalize_dropping_extension(filename) == StripFirstMatch(StemOf(filename))

normalize_filename(filename) ==
    LET dot == LastDot(filename)
    IN  IF dot = 0 THEN StripFirstMatch(filename)
        ELSE StripFirstMatch(SubSeq(filename, 1, dot - 1))
             \o <<".">> \o SubSeq(filename, dot + 1, Len(filename))

(***************************************************************************)
(* The directory.  The run takes a file by its normalized filename, its    *)
(* size and its timestamp, and a path only to tell files apart, so which   *)
(* of the copies of a file stand in the directory makes no difference: a   *)
(* directory holds the first copies of CopiesOfA and the first of          *)
(* CopiesOfB.  The four names of CopiesOfA normalize to "a.t", so that one *)
(* name group can hold two duplicate sets; the two of CopiesOfB normalize  *)
(* to "b".                                                                 *)
(***************************************************************************)
CopiesOfA == <<
    <<"a", ".", "t">>,
    <<"a", " ", "(", "1", ")", ".", "t">>,
    <<"a", " ", "c", "o", "p", "y", ".", "t">>,
    <<"a", "(", "2", ")", ".", "t">> >>

CopiesOfB == <<
    <<"b">>,
    <<"b", "(", "U+0663", "U+0664", ")">> >>

FirstOf(copies, n) == {copies[i] : i \in 1..n}

\* Filenames the scanned directory may hold.
FileNames == FirstOf(CopiesOfA, Len(CopiesOfA))
                 \cup FirstOf(CopiesOfB, Len(CopiesOfB))

\* The directories a run may start in.
Directories ==
    {d \in {FirstOf(CopiesOfA, i) \cup FirstOf(CopiesOfB, j) :
                i \in 0..Len(CopiesOfA), j \in 0..Len(CopiesOfB)} :
        Cardinality(d) <= MaxEntries}

\* All orders of a finite set, as sequences without repetition.
Perms(S) ==
    {f \in [1..Cardinality(S) -> S] : \A i, j \in 1..Cardinality(S) :
                                          f[i] = f[j] => i = j}

\* struct FileInfo
FileInfo(path, size, created) ==
    [path |-> path, size |-> size, created |-> created]

\* hashmap_name.entry(key).or_insert(vec![]).push(file_info)
Push(map, key, file_info) ==
    [k \in DOMAIN map \cup {key} |->
        IF k = key
        THEN Append(IF key \in DOMAIN map THEN map[key] ELSE <<>>, file_info)
        ELSE map[k]]

\* A variant that leaves the size out of the sub-grouping.
SizeGroupAnySize(file_infos, size) == file_infos

\* The sub-list of one size: what hashmap_size holds under that key.
SizeGroup(file_infos, size) == SelectSeq(file_infos, LAMBDA f : f.size = size)

SizeKeys(file_infos) == {file_infos[i].size : i \in 1..Len(file_infos)}

\* size_group.iter().min_by_key(|f| f.created): the first of the minima.
MinByKey(size_group) ==
    LET first == CHOOSE i \in 1..Len(size_group) :
                    /\ \A j \in 1..Len(size_group) :
                           size_group[i].created <= size_group[j].created
                    /\ \A j \in 1..(i - 1) :
                           size_group[j].created > size_group[i].created
    IN  size_group[first]

\* A variant that tells the keeper by its timestamp instead of its path.
ToDeleteByTime(size_group) ==
    SelectSeq(size_group,
              LAMBDA f : f.created # MinByKey(size_group).created)

\* A variant that lists every member, the one to keep too.
ToDeleteAll(size_group) == size_group

\* The members of a size group that are listed for deletion, in order.
ToDelete(size_group) ==
    SelectSeq(size_group, LAMBDA f : f.path # MinByKey(size_group).path)

Paths(file_infos) == [i \in 1..Len(file_infos) |-> file_infos[i].path]

(***************************************************************************)
(* Initial states: the process is started with its arguments and main has  *)
(* not run yet.  An argument is Some(string), or None when it is not valid *)
(* Unicode.                                                                *)
(***************************************************************************)
hydra == <<"h", "y", "d", "r", "a">>

DryRunFlag == <<"-", "-", "d", "r", "y", "-", "r", "u", "n">>

\* The argument lists a run may be started with.
ArgLists == {
    <<Some(hydra)>>,
    <<Some(hydra), Some(DryRunFlag)>>,
    <<Some(hydra), None>>,
    <<Some(hydra), Some(DryRunFlag), None>> }

\* "Running in DRY RUN mode - no files will be deleted" and an empty line
\* (lines 252-254).
Banner == IF dry_run THEN << <<"DryRunBanner">> >> ELSE <<>>

MainIdle ==
    /\ pc = "main"
    /\ dry_run = FALSE
    /\ todo = {}
    /\ cur = [kind |-> "none"]
    /\ hashmap_name = <<>>
    /\ iter_order = <<>>
    /\ idx = 0
    /\ hashmap_size = <<>>
    /\ total_duplicates_found = 0
    /\ total_files_to_delete = 0
    /\ line = None
    /\ input = None
    /\ deleted_count = 0
    /\ error_count = 0
    /\ removals = <<>>
    /\ stdout = <<>>
    /\ stderr = <<>>

Init ==
    /\ args \in ArgLists
    /\ fs \in Directories
    /\ fs_before = fs
    /\ MainIdle
    /\ nf_name = <<>>
    /\ nf_out = <<>>

\* Left alone by every step of a run.
harnessVars == <<nf_name, nf_out, fs_before, args>>
reportVars == <<hashmap_size, total_duplicates_found, total_files_to_delete>>
answerVars == <<line, input>>
deleteVars == <<deleted_count, error_count, removals>>
scanVars == <<todo, cur, hashmap_name>>

(***************************************************************************)
(* Panics.  unwrap panics on an Err or None; println!, print! and          *)
(* eprintln! panic when the write to the stream fails ("failed printing to *)
(* stdout", "failed printing to stderr").  The panic unwinds main: the     *)
(* locals of the run are dropped and the process ends.  What stays is what *)
(* went out before: the lines written, the line read from standard input,  *)
(* the calls of remove_file and the directory.  <<"Panic", message>> in    *)
(* stderr stands for the panic itself.                                     *)
(*                                                                         *)
(* Standard output is line buffered.  A println! without arguments hands   *)
(* its whole line to the stream in one write, and the line is lost when    *)
(* that write fails.  A println! with arguments puts its pieces into the   *)
(* buffer and flushes at the newline: when the flush fails the line stays  *)
(* in the buffer, and the buffer is flushed once more when the process     *)
(* exits.  So after the panic the line whose write failed (kept) is on     *)
(* standard output when that last write works, and is not when it fails    *)
(* too.                                                                    *)
(*                                                                         *)
(* Standard error is not buffered, and eprintln! with arguments hands its  *)
(* line to the stream piece by piece, one write each: the text, the path,  *)
(* the error, the newline last.  The panic comes at the first piece whose  *)
(* write fails, and the pieces before it are on standard error already.    *)
(* So after the panic the line is absent when the first piece failed, and  *)
(* stands before the panic's message, whole or cut short, when a later one *)
(* did.                                                                    *)
(***************************************************************************)
\* The lines printed with arguments, which pass through the buffer.
Formatted ==
    {"Normalized", "Size", "Keeping", "WouldDelete", "WillDelete", "Summary",
     "TotalToDelete", "Deleted", "FilesDeleted", "ErrorsEncountered"}

\* What the buffer of stdout holds when the write of the line l has failed.
Buffered(l) == IF l[1] \in Formatted THEN <<l>> ELSE <<>>

\* What stands on stderr of the line l when a write of its eprintln! has
\* failed: nothing, or the line as far as it was written.
Unbuffered(l) == {<<>>, <<l>>}

Panicked(out, kept, err, message) ==
    /\ pc' = "panicked"
    /\ stdout' \in {out, out \o kept}
    /\ stderr' = Append(err, <<"Panic", message>>)
    /\ todo' = {}
    /\ cur' = [kind |-> "none"]
    /\ hashmap_name' = <<>>
    /\ iter_order' = <<>>
    /\ idx' = 0
    /\ hashmap_size' = <<>>
    /\ total_duplicates_found' = 0
    /\ total_files_to_delete' = 0
    /\ deleted_count' = 0
    /\ error_count' = 0
    /\ UNCHANGED <<dry_run, harnessVars>>

\* The first n of the lines.
Written(lines, n) == SubSeq(lines, 1, n)

\* The println! of the line after the first n of the lines fails.
StdoutPanic(lines, n) ==
    Panicked(stdout \o Written(lines, n), Buffered(lines[n + 1]), stderr,
             "failed printing to stdout")

(***************************************************************************)
(* main (lines 246-256): the arguments and the flag, the dry-run banner,   *)
(* then the call.                                                          *)
(***************************************************************************)
\* env::args().collect() (line 247) and the test for --dry-run among the
\* arguments, the program's name included (line 250).
Args ==
    /\ pc = "main"
    /\ \A i \in 1..Len(args) : args[i] # None
    /\ pc' = "parsed"
    /\ dry_run' = (\E i \in 1..Len(args) : args[i] = Some(DryRunFlag))
    /\ UNCHANGED <<fs, iter_order, idx, stdout, stderr, scanVars, reportVars,
                   answerVars, deleteVars, harnessVars>>

\* env::args() panics when an argument is not valid Unicode: the run ends at
\* line 247 with nothing printed.
ArgsPanic ==
    /\ pc = "main"
    /\ \E i \in 1..Len(args) : args[i] = None
    /\ Panicked(stdout, <<>>, stderr, "args")
    /\ UNCHANGED <<fs, removals, answerVars>>

\* Lines 252-254.
Main ==
    /\ pc = "parsed"
    /\ pc' = "start"
    /\ stdout' = stdout \o Banner
    /\ UNCHANGED <<dry_run, fs, iter_order, idx, stderr, scanVars,
                   reportVars, answerVars, deleteVars, harnessVars>>

\* The println! of line 253 fails.
BannerPanic ==
    /\ pc = "parsed"
    /\ dry_run
    /\ StdoutPanic(Banner, 0)
    /\ UNCHANGED <<fs, removals, answerVars>>

(***************************************************************************)
(* get_current_directory (lines 16-23): env::current_dir().unwrap() and    *)
(* to_str().unwrap() panic when the working directory cannot be had or its *)
(* path is not UTF-8.                                                      *)
(***************************************************************************)
get_current_directory ==
    /\ pc = "start"
    /\ pc' = "read_dir"
    /\ UNCHANGED <<dry_run, fs, iter_order, idx, stdout, stderr, scanVars,
                   reportVars, answerVars, deleteVars, harnessVars>>

CurrentDirPanic ==
    /\ pc = "start"
    /\ Panicked(stdout, <<>>, stderr, "get_current_directory")
    /\ UNCHANGED <<fs, removals, answerVars>>

(***************************************************************************)
(* fs::read_dir (lines 63-69).                                             *)
(***************************************************************************)
ReadDirOk ==
    /\ pc = "read_dir"
    /\ pc' = "scanning"
    /\ todo' = fs
    /\ UNCHANGED <<dry_run, fs, cur, hashmap_name, iter_order, idx, stdout,
                   stderr, reportVars, answerVars, deleteVars, harnessVars>>

ReadDirErr ==
    /\ pc = "read_dir"
    /\ pc' = "read_error"
    /\ stderr' = Append(stderr, <<"ErrorReadingDirectory">>)
    /\ UNCHANGED <<dry_run, fs, iter_order, idx, stdout, scanVars,
                   reportVars, answerVars, deleteVars, harnessVars>>

\* The eprintln! of line 66 fails, at its first piece or at a later one.
ReadDirErrPanic ==
    /\ pc = "read_dir"
    /\ \E written \in Unbuffered(<<"ErrorReadingDirectory">>) :
          Panicked(stdout, <<>>, stderr \o written,
                   "failed printing to stderr")
    /\ UNCHANGED <<fs, removals, answerVars>>

(***************************************************************************)
(* One iteration of the scan loop (lines 71-127).  The entry's metadata is *)
(* the iteration's input; cur holds what the iteration saw.                *)
(***************************************************************************)
ScanSkip(path, kind) ==
    /\ todo' = todo \ {path}
    /\ cur' = [kind |-> kind, path |-> path]
    /\ UNCHANGED <<pc, dry_run, fs, hashmap_name, iter_order, idx, stdout,
                   stderr, reportVars, answerVars, deleteVars, harnessVars>>

\* Err(e) from the iterator: "Error reading directory entry".  The error is
\* of the read of the directory, not of one entry, and the iterator yields
\* nothing after it (ReadDir returns None from then on): the entries not yet
\* yielded are never scanned, and the loop ends with the next step.
ScanEntryErr ==
    /\ pc = "scanning"
    /\ cur.kind # "entry_err"
    /\ todo' = {}
    /\ cur' = [kind |-> "entry_err", unread |-> todo]
    /\ UNCHANGED <<pc, dry_run, fs, hashmap_name, iter_order, idx, stdout,
                   stderr, reportVars, answerVars, deleteVars, harnessVars>>

\* The eprintln! of a warning fails: that of line 75 for an error of the
\* iterator, that of line 86, 99 or 114 for an entry.  What it had written of
\* the warning is not kept: stderr holds no warning of the scan.
ScanWarnPanic ==
    /\ pc = "scanning"
    /\ cur.kind # "entry_err"
    /\ Panicked(stdout, <<>>, stderr, "failed printing to stderr")
    /\ UNCHANGED <<fs, removals, answerVars>>

\* fs::metadata fails: "Error reading metadata"
ScanMetadataErr ==
    /\ pc = "scanning"
    /\ \E path \in todo : ScanSkip(path, "metadata_err")

\* !metadata.is_file()
ScanNotFile ==
    /\ pc = "scanning"
    /\ \E path \in todo : ScanSkip(path, "not_file")

\* path.file_name() is None
ScanNoFilename ==
    /\ pc = "scanning"
    /\ \E path \in todo : ScanSkip(path, "no_filename")

\* metadata.created() and metadata.modified() both fail
ScanNoTime ==
    /\ pc = "scanning"
    /\ \E path \in todo : ScanSkip(path, "no_time")

\* A variant that takes the modified time first.
TimestampModifiedFirst(created, modified) ==
    IF modified # None THEN modified[1] ELSE created[1]

\* The timestamp of a record: creation time, modified time as fallback.
Timestamp(created, modified) ==
    IF created # None THEN created[1] ELSE modified[1]

\* normalize_filename of every name a directory may hold, worked out once:
\* the function depends on the name alone.
NormalizedNames == [filename \in FileNames |-> normalize_filename(filename)]

\* A regular file with a timestamp: its FileInfo is pushed.  The entry has a
\* modified time, which the code reads only when metadata.created() fails;
\* when it has a creation time too the two differ, so that the one taken
\* shows (equal times give the same record either way).
ScanRecord ==
    /\ pc = "scanning"
    /\ \E path \in todo, size \in Sizes, created \in Opt(Times),
          modified \in Opt(Times) :
          /\ modified # None
          /\ created # modified
          /\ todo' = todo \ {path}
          /\ cur' = [kind |-> "ok", path |-> path, size |-> size,
                     created |-> created, modified |-> modified]
          /\ hashmap_name' =
                 Push(hashmap_name, NormalizedNames[path],
                      FileInfo(path, size, Timestamp(created, modified)))
    /\ UNCHANGED <<pc, dry_run, fs, iter_order, idx, stdout, stderr,
                   reportVars, answerVars, deleteVars, harnessVars>>

\* The position of the loop over hashmap_name (line 133) before the i-th
\* key of the order: the next name group is to be sub-grouped, or the map is
\* exhausted and what follows is the end of the report (line 174).
LoopHead(order, i) == IF i <= Len(order) THEN "grouping" ELSE "reporting"

\* The iterator is exhausted; the loop's locals go out of scope.  The order
\* in which hashmap_name iterates is arbitrary, and the same for both loops
\* over it, since the map is not modified in between.
ScanDone ==
    /\ pc = "scanning"
    /\ todo = {}
    /\ cur' = [kind |-> "none"]
    /\ iter_order' \in Perms(DOMAIN hashmap_name)
    /\ idx' = 1
    /\ pc' = LoopHead(iter_order', 1)
    /\ UNCHANGED <<dry_run, fs, todo, hashmap_name, stdout, stderr,
                   reportVars, answerVars, deleteVars, harnessVars>>

(***************************************************************************)
(* Step 2 (lines 130-172): one iteration of the loop over hashmap_name, in *)
(* two steps.  Group sub-groups the name group by size (lines 133-140):    *)
(* hashmap_size is built anew for the group and iterates in an arbitrary   *)
(* order.  ReportGroup prints the duplicate sets of the group (lines       *)
(* 143-170).  So the run groups and reports by turns, one name group at a  *)
(* time.                                                                   *)
(***************************************************************************)
\* What the report prints for one duplicate set (lines 154-168).
ReportLines(normalized_filename, size, size_group, dry) ==
    LET del == ToDelete(size_group)
    IN  << <<"DuplicateSet">>,
           <<"Normalized", normalized_filename>>,
           <<"Size", size>>,
           <<"Keeping", MinByKey(size_group).path>> >>
        \o [i \in 1..Len(del) |->
               <<IF dry THEN "WouldDelete" ELSE "WillDelete", del[i].path>>]

\* A variant that counts every member of a set, its keeper too, as a file to
\* delete.
RECURSIVE ReportSizesPlusKeeper(_, _, _, _, _)
ReportSizesPlusKeeper(normalized_filename, file_infos, size_order, i, dry) ==
    IF i > Len(size_order) THEN [found |-> 0, to_delete |-> 0, out |-> <<>>]
    ELSE LET size_group == SizeGroup(file_infos, size_order[i])
             rest == ReportSizesPlusKeeper(normalized_filename, file_infos,
                                           size_order, i + 1, dry)
         IN  IF Len(size_group) > 1
             THEN [found |-> 1 + rest.found,
                   to_delete |-> Len(size_group) + rest.to_delete,
                   out |-> ReportLines(normalized_filename, size_order[i],
                                       size_group, dry) \o rest.out]
             ELSE rest

\* The loop over hashmap_size (lines 143-170), from position i of size_order:
\* the sets found, the files to delete and the lines printed.
RECURSIVE ReportSizes(_, _, _, _, _)
ReportSizes(normalized_filename, file_infos, size_order, i, dry) ==
    IF i > Len(size_order) THEN [found |-> 0, to_delete |-> 0, out |-> <<>>]
    ELSE LET size_group == SizeGroup(file_infos, size_order[i])
             rest == ReportSizes(normalized_filename, file_infos, size_order,
                                 i + 1, dry)
         IN  IF Len(size_group) > 1
             THEN [found |-> 1 + rest.found,
                   to_delete |-> (Len(size_group) - 1) + rest.to_delete,
                   out |-> ReportLines(normalized_filename, size_order[i],
                                       size_group, dry) \o rest.out]
             ELSE rest

\* Lines 133-140.  A name group of one record is passed over (line 135).
Group ==
    /\ pc = "grouping"
    /\ LET file_infos == hashmap_name[iter_order[idx]]
       IN  IF Len(file_infos) > 1
           THEN /\ hashmap_size' \in Perms(SizeKeys(file_infos))
                /\ pc' = "reporting"
                /\ idx' = idx
           ELSE /\ hashmap_size' = <<>>
                /\ pc' = LoopHead(iter_order, idx + 1)
                /\ idx' = idx + 1
    /\ UNCHANGED <<dry_run, fs, iter_order, stdout, stderr, scanVars,
                   total_duplicates_found, total_files_to_delete, answerVars,
                   deleteVars, harnessVars>>

\* Lines 143-170, and on to the next key of hashmap_name.
ReportGroup ==
    /\ pc = "reporting"
    /\ idx <= Len(iter_order)
    /\ LET normalized_filename == iter_order[idx]
           file_infos == hashmap_name[normalized_filename]
           r == ReportSizes(normalized_filename, file_infos, hashmap_size, 1,
                            dry_run)
       IN  /\ total_duplicates_found' = total_duplicates_found + r.found
           /\ total_files_to_delete' = total_files_to_delete + r.to_delete
           /\ stdout' = stdout \o r.out
    /\ hashmap_size' = <<>>
    /\ pc' = LoopHead(iter_order, idx + 1)
    /\ idx' = idx + 1
    /\ UNCHANGED <<dry_run, fs, iter_order, stderr, scanVars, answerVars,
                   deleteVars, harnessVars>>

\* A println! of lines 154-165 fails: a part of the group's lines is out.
ReportGroupPanic ==
    /\ pc = "reporting"
    /\ idx <= Len(iter_order)
    /\ LET normalized_filename == iter_order[idx]
           file_infos == hashmap_name[normalized_filename]
           r == ReportSizes(normalized_filename, file_infos, hashmap_size, 1,
                            dry_run)
       IN  \E n \in 0..(Len(r.out) - 1) : StdoutPanic(r.out, n)
    /\ UNCHANGED <<fs, removals, answerVars>>

\* The loop over hashmap_name is over (line 174).
ReportDone == pc = "reporting" /\ idx > Len(iter_order)

SummaryLines ==
    << <<"Summary", total_duplicates_found>>,
       <<"TotalToDelete", total_files_to_delete>> >>

\* Lines 174-177.
NoDuplicates ==
    /\ ReportDone
    /\ total_duplicates_found = 0
    /\ pc' = "no_duplicates"
    /\ stdout' = Append(stdout, <<"NoDuplicatesFound">>)
    /\ UNCHANGED <<dry_run, fs, iter_order, idx, stderr, scanVars, reportVars,
                   answerVars, deleteVars, harnessVars>>

\* The println! of line 175 fails.
NoDuplicatesPanic ==
    /\ ReportDone
    /\ total_duplicates_found = 0
    /\ StdoutPanic(<< <<"NoDuplicatesFound">> >>, 0)
    /\ UNCHANGED <<fs, removals, answerVars>>

\* A println! of lines 179-181 fails (the rule of line 179 with nothing of
\* the summary out, as the first of SummaryLines), or in a dry run one of
\* lines 184-185 (the second of them with the notice of the first out).
SummaryPanic ==
    /\ ReportDone
    /\ total_duplicates_found # 0
    /\ \/ \E n \in 0..(Len(SummaryLines) - 1) : StdoutPanic(SummaryLines, n)
       \/ /\ dry_run
          /\ \E tail \in {<<>>, << <<"DryRunNoFilesDeleted">> >>} :
                Panicked(stdout \o SummaryLines \o tail, <<>>, stderr,
                         "failed printing to stdout")
    /\ UNCHANGED <<fs, removals, answerVars>>

\* The print! of line 189 fails.  Its text begins with a newline, which the
\* line buffer hands to the stream at once: when that write fails nothing of
\* the prompt is in the buffer.
PromptPanic ==
    /\ ReportDone
    /\ total_duplicates_found # 0
    /\ ~dry_run
    /\ Panicked(stdout \o SummaryLines, <<>>, stderr,
                "failed printing to stdout")
    /\ UNCHANGED <<fs, removals, answerVars>>

\* io::stdout().flush().unwrap() (line 190): the prompt, kept back by the
\* line buffer of stdout, cannot be written and stays in the buffer.
FlushPanic ==
    /\ ReportDone
    /\ total_duplicates_found # 0
    /\ ~dry_run
    /\ Panicked(stdout \o SummaryLines, << <<"ProceedPrompt">> >>, stderr,
                "flush")
    /\ UNCHANGED <<fs, removals, answerVars>>

\* Lines 179-187.
DryRunDone ==
    /\ ReportDone
    /\ total_duplicates_found # 0
    /\ dry_run
    /\ pc' = "dry_run_done"
    /\ stdout' = stdout \o SummaryLines \o << <<"DryRunNoFilesDeleted">> >>
    /\ UNCHANGED <<dry_run, fs, iter_order, idx, stderr, scanVars, reportVars,
                   answerVars, deleteVars, harnessVars>>

\* A variant that prompts in a dry run too.
PromptAlsoInDryRun ==
    /\ ReportDone
    /\ total_duplicates_found # 0
    /\ pc' = "awaiting_confirmation"
    /\ stdout' = stdout \o SummaryLines \o << <<"ProceedPrompt">> >>
    /\ UNCHANGED <<dry_run, fs, iter_order, idx, stderr, scanVars, reportVars,
                   answerVars, deleteVars, harnessVars>>

\* Lines 179-190: the summary and the prompt.
Prompt ==
    /\ ReportDone
    /\ total_duplicates_found # 0
    /\ ~dry_run
    /\ pc' = "awaiting_confirmation"
    /\ stdout' = stdout \o SummaryLines \o << <<"ProceedPrompt">> >>
    /\ UNCHANGED <<dry_run, fs, iter_order, idx, stderr, scanVars, reportVars,
                   answerVars, deleteVars, harnessVars>>

(***************************************************************************)
(* The answer (lines 192-199).                                             *)
(***************************************************************************)

RECURSIVE TrimStart(_)
TrimStart(s) ==
    IF s # <<>> /\ Head(s) \in Whitespace THEN TrimStart(Tail(s)) ELSE s

RECURSIVE TrimEnd(_)
TrimEnd(s) ==
    IF s # <<>> /\ s[Len(s)] \in Whitespace THEN TrimEnd(DropLast(s, 1)) ELSE s

trim(s) == TrimEnd(TrimStart(s))

\* str::to_lowercase on the characters of Alphabet.  Upper[i] becomes
\* Lower[i]: the ASCII letters, and of the other characters that have a
\* lowercase mapping U+00C9 (E acute), U+0391 (Alpha), U+FF39 (fullwidth Y)
\* and U+212A (Kelvin sign, whose lowercase is the ASCII k).
Upper == <<"A", "B", "C", "D", "E", "F", "G", "H", "I", "J", "K", "L", "M",
           "N", "O", "P", "Q", "R", "S", "T", "U", "V", "W", "X", "Y", "Z",
           "U+00C9", "U+0391", "U+FF39", "U+212A">>
Lower == <<"a", "b", "c", "d", "e", "f", "g", "h", "i", "j", "k", "l", "m",
           "n", "o", "p", "q", "r", "s", "t", "u", "v", "w", "x", "y", "z",
           "U+00E9", "U+03B1", "U+FF59", "k">>

\* The characters of Alphabet with the properties Cased and Case_Ignorable,
\* which decide the lowercase of a capital sigma.
Cased ==
    {Upper[i] : i \in 1..Len(Upper)} \cup {Lower[i] : i \in 1..Len(Lower)}
        \cup {"U+0130", "U+03A3", "U+03C3", "U+03C2"}
Case_Ignorable == {"'", ".", ":", "^", "U+0060", "U+0307"}

\* The characters the strings of the model are made of: ASCII, every decimal
\* digit, every whitespace character, and the characters above.  trim and
\* normalize_filename do as the code does on every string; to_lowercase does
\* on the strings over Alphabet.
Alphabet == Ascii \cup Digits \cup Whitespace \cup Cased \cup Case_Ignorable

\* char::to_lowercase: one character, but two for U+0130 (I with dot above).
LowerOf(c) ==
    IF c = "U+0130" THEN <<"i", "U+0307">>
    ELSE IF \E i \in 1..Len(Upper) : Upper[i] = c
    THEN <<Lower[CHOOSE i \in 1..Len(Upper) : Upper[i] = c]>>
    ELSE <<c>>

\* The first character of s that is not Case_Ignorable is Cased.
RECURSIVE case_ignorable_then_cased(_)
case_ignorable_then_cased(s) ==
    IF s = <<>> THEN FALSE
    ELSE IF Head(s) \in Case_Ignorable
    THEN case_ignorable_then_cased(Tail(s))
    ELSE Head(s) \in Cased

\* The lowercase of the capital sigma at place i: the final sigma U+03C2 when
\* a cased letter stands before it and none after it, U+03C3 otherwise.
map_uppercase_sigma(from, i) ==
    LET before == [n \in 1..(i - 1) |-> from[i - n]]
        after == SubSeq(from, i + 1, Len(from))
    IN  IF case_ignorable_then_cased(before)
           /\ ~case_ignorable_then_cased(after)
        THEN "U+03C2" ELSE "U+03C3"

to_lowercase(s) ==
    Flatten([i \in 1..Len(s) |->
                IF s[i] = "U+03A3" THEN <<map_uppercase_sigma(s, i)>>
                ELSE LowerOf(s[i])])

\* Lines standard input may deliver.
\* The last two: a fullwidth Y, and the empty string that read_line leaves at
\* the end of input.
InputLines ==
    LET lines == {
            <<"Y", "\n">>,
            <<" ", "\f", "y", "E", "s", "U+00A0", "\r", "\n">>,
            <<"n", "\n">>,
            <<"\n">>,
            <<"y", " ", "e", "s", "\n">>,
            <<"U+FF39", "\n">>,
            <<>> }
    IN  {l \in lines : \A i \in 1..Len(l) : l[i] \in Alphabet}

Affirmative(answer) == answer = <<"y">> \/ answer = <<"y", "e", "s">>

\* A variant without the return of line 198.
CancelFallThrough ==
    /\ pc = "awaiting_confirmation"
    /\ \E l \in InputLines :
          /\ ~Affirmative(to_lowercase(trim(l)))
          /\ line' = Some(l)
          /\ input' = Some(to_lowercase(trim(l)))
    /\ pc' = "deleting"
    /\ idx' = 1
    /\ stdout' = stdout \o << <<"DeletionCancelled">>, <<"DeletingFiles">> >>
    /\ UNCHANGED <<dry_run, fs, iter_order, stderr, scanVars, reportVars,
                   deleteVars, harnessVars>>

\* io::stdin().read_line(&mut input).unwrap() (line 193) panics when the
\* line cannot be read, as when it is not UTF-8.
ReadLinePanic ==
    /\ pc = "awaiting_confirmation"
    /\ Panicked(stdout, <<>>, stderr, "read_line")
    /\ UNCHANGED <<fs, removals, answerVars>>

\* The answer is not y or yes and the println! of line 197 fails.
CancelPanic ==
    /\ pc = "awaiting_confirmation"
    /\ \E l \in InputLines :
          /\ ~Affirmative(to_lowercase(trim(l)))
          /\ line' = Some(l)
          /\ input' = Some(to_lowercase(trim(l)))
    /\ Panicked(stdout, <<>>, stderr, "failed printing to stdout")
    /\ UNCHANGED <<fs, removals>>

\* The answer is y or yes and the println! of line 201 fails.
ConfirmPanic ==
    /\ pc = "awaiting_confirmation"
    /\ \E l \in InputLines :
          /\ Affirmative(to_lowercase(trim(l)))
          /\ line' = Some(l)
          /\ input' = Some(to_lowercase(trim(l)))
    /\ Panicked(stdout, <<>>, stderr, "failed printing to stdout")
    /\ UNCHANGED <<fs, removals>>

\* io::stdin().read_line(&mut input), then
\* let input = input.trim().to_lowercase(), and the test of line 196.
Cancel ==
    /\ pc = "awaiting_confirmation"
    /\ \E l \in InputLines :
          /\ ~Affirmative(to_lowercase(trim(l)))
          /\ line' = Some(l)
          /\ input' = Some(to_lowercase(trim(l)))
    /\ pc' = "cancelled"
    /\ stdout' = Append(stdout, <<"DeletionCancelled">>)
    /\ UNCHANGED <<dry_run, fs, iter_order, idx, stderr, scanVars, reportVars,
                   deleteVars, harnessVars>>

Confirm ==
    /\ pc = "awaiting_confirmation"
    /\ \E l \in InputLines :
          /\ Affirmative(to_lowercase(trim(l)))
          /\ line' = Some(l)
          /\ input' = Some(to_lowercase(trim(l)))
    /\ pc' = "deleting"
    /\ idx' = 1
    /\ stdout' = Append(stdout, <<"DeletingFiles">>)
    /\ UNCHANGED <<dry_run, fs, iter_order, stderr, scanVars, reportVars,
                   deleteVars, harnessVars>>

(***************************************************************************)
(* Deletion (lines 201-236): one iteration of the second loop over         *)
(* hashmap_name.  hashmap_size is rebuilt and iterated in an order of its  *)
(* own; each fs::remove_file succeeds or fails on its own.                 *)
(***************************************************************************)
\* A variant that leaves the loop over hashmap_size after its first key.
DeleteTargetsFirstSizeOnly(file_infos, size_order, i) ==
    LET size_group == SizeGroup(file_infos, size_order[i])
    IN  IF Len(size_group) > 1 THEN Paths(ToDelete(size_group)) ELSE <<>>

\* The paths passed to fs::remove_file for one name group, in order.
RECURSIVE DeleteTargets(_, _, _)
DeleteTargets(file_infos, size_order, i) ==
    IF i > Len(size_order) THEN <<>>
    ELSE LET size_group == SizeGroup(file_infos, size_order[i])
         IN  (IF Len(size_group) > 1 THEN Paths(ToDelete(size_group))
              ELSE <<>>)
             \o DeleteTargets(file_infos, size_order, i + 1)

\* The targets that reach fs::remove_file when the prints of the first
\* n - 1 of them work: the Err arm of line 226 only counts and reports, so
\* a failed removal does not stop the loop; a failed print does.
Attempted(targets, n) == SubSeq(targets, 1, n)

Removed(paths, result) == SelectSeq(paths, LAMBDA path : result[path] = "Ok")

Failed(paths, result) == SelectSeq(paths, LAMBDA path : result[path] = "Err")

Tagged(tag, paths) == [i \in 1..Len(paths) |-> <<tag, paths[i]>>]

Range(s) == {s[i] : i \in 1..Len(s)}

DeleteGroup ==
    /\ pc = "deleting"
    /\ idx <= Len(iter_order)
    /\ LET file_infos == hashmap_name[iter_order[idx]]
       IN  IF Len(file_infos) > 1
           THEN \E size_order \in Perms(SizeKeys(file_infos)) :
                   LET targets == DeleteTargets(file_infos, size_order, 1)
                       attempted == Attempted(targets, Len(targets))
                   IN  \E result \in [Range(attempted) -> {"Ok", "Err"}] :
                          /\ removals' = removals \o attempted
                          /\ fs' = fs \ Range(Removed(attempted, result))
                          /\ deleted_count' =
                                 deleted_count + Len(Removed(attempted, result))
                          /\ error_count' =
                                 error_count + Len(Failed(attempted, result))
                          /\ stdout' = stdout
                                 \o Tagged("Deleted", Removed(attempted, result))
                          /\ stderr' = stderr
                                 \o Tagged("ErrorDeleting",
                                           Failed(attempted, result))
           ELSE UNCHANGED <<removals, fs, deleted_count, error_count, stdout,
                            stderr>>
    /\ idx' = idx + 1
    /\ UNCHANGED <<pc, dry_run, iter_order, scanVars, reportVars, answerVars,
                   harnessVars>>

\* The print that follows the n-th remove_file of the group fails: the
\* println! of line 223 when the file was removed, the eprintln! of line 227
\* when it was not, and then the error's line may stand on stderr as far as
\* it was written.  The targets after it are never attempted.
DeleteGroupPanic ==
    /\ pc = "deleting"
    /\ idx <= Len(iter_order)
    /\ LET file_infos == hashmap_name[iter_order[idx]]
       IN  /\ Len(file_infos) > 1
           /\ \E size_order \in Perms(SizeKeys(file_infos)) :
                 LET targets == DeleteTargets(file_infos, size_order, 1)
                 IN  \E n \in 1..Len(targets) :
                        LET attempted == Attempted(targets, n)
                            reported == Attempted(targets, n - 1)
                        IN  \E result \in [Range(attempted)
                                               -> {"Ok", "Err"}] :
                            \E written \in
                                  IF result[targets[n]] = "Ok"
                                  THEN {<<>>}
                                  ELSE Unbuffered(<<"ErrorDeleting",
                                                    targets[n]>>) :
                               /\ removals' = removals \o attempted
                               /\ fs' = fs \ Range(Removed(attempted, result))
                               /\ Panicked(
                                      stdout \o Tagged("Deleted",
                                                       Removed(reported,
                                                               result)),
                                      IF result[targets[n]] = "Ok"
                                      THEN << <<"Deleted", targets[n]>> >>
                                      ELSE <<>>,
                                      stderr \o Tagged("ErrorDeleting",
                                                       Failed(reported,
                                                              result))
                                             \o written,
                                      IF result[targets[n]] = "Ok"
                                      THEN "failed printing to stdout"
                                      ELSE "failed printing to stderr")
    /\ UNCHANGED answerVars

\* What lines 238-243 print.
FinishLines ==
    << <<"DeletionComplete">>, <<"FilesDeleted", deleted_count>> >>
        \o (IF error_count > 0
            THEN << <<"ErrorsEncountered", error_count>> >> ELSE <<>>)

\* Lines 238-243.
Finish ==
    /\ pc = "deleting"
    /\ idx > Len(iter_order)
    /\ pc' = "done"
    /\ stdout' = stdout \o FinishLines
    /\ UNCHANGED <<dry_run, fs, iter_order, idx, stderr, scanVars, reportVars,
                   answerVars, deleteVars, harnessVars>>

\* A println! of lines 238-243 fails (the rule of line 238 with nothing of
\* the lines out, as the first of FinishLines).
FinishPanic ==
    /\ pc = "deleting"
    /\ idx > Len(iter_order)
    /\ \E n \in 0..(Len(FinishLines) - 1) : StdoutPanic(FinishLines, n)
    /\ UNCHANGED <<fs, removals, answerVars>>

Next ==
    \/ Args
    \/ ArgsPanic
    \/ Main
    \/ BannerPanic
    \/ get_current_directory
    \/ CurrentDirPanic
    \/ ReadDirOk
    \/ ReadDirErr
    \/ ReadDirErrPanic
    \/ ScanEntryErr
    \/ ScanWarnPanic
    \/ ScanMetadataErr
    \/ ScanNotFile
    \/ ScanNoFilename
    \/ ScanNoTime
    \/ ScanRecord
    \/ ScanDone
    \/ Group
    \/ ReportGroup
    \/ ReportGroupPanic
    \/ NoDuplicates
    \/ NoDuplicatesPanic
    \/ SummaryPanic
    \/ DryRunDone
    \/ PromptPanic
    \/ FlushPanic
    \/ Prompt
    \/ ReadLinePanic
    \/ Cancel
    \/ CancelPanic
    \/ Confirm
    \/ ConfirmPanic
    \/ DeleteGroup
    \/ DeleteGroupPanic
    \/ Finish
    \/ FinishPanic

Spec == Init /\ [][Next]_vars

(***************************************************************************)
(* A harness for normalize_filename alone: a filename built from pieces,   *)
(* normalized up to MaxApply times in succession.                          *)
(***************************************************************************)
Pieces == {
    <<"a">>,
    <<" ", "c", "o", "p", "y">>,
    <<" ", "c", "o", "p", "y", " ", "2">>,
    <<" ", "-", " ", "C", "o", "p", "y">>,
    <<" ", "-", " ", "C", "o", "p", "y", " ", "(", "2", ")">>,
    <<" ", "(", "1", ")">>,
    <<"(", "3", "4", ")">>,
    <<" ", "(", "1", "U+0661", ")">>,
    <<" ", "c", "o", "p", "y", " ", "U+FF12">>,
    <<".", "t">> }

RECURSIVE SeqsUpTo(_, _)
SeqsUpTo(S, n) ==
    IF n = 0 THEN {<<>>}
    ELSE LET shorter == SeqsUpTo(S, n - 1)
         IN  shorter \cup {Append(q, x) : q \in shorter, x \in S}

\* The filenames the specification's examples name, and their results.
report_copy_2_pdf ==
    <<"r", "e", "p", "o", "r", "t", " ", "-", " ", "C", "o", "p", "y", " ",
      "(", "2", ")", ".", "p", "d", "f">>
report_pdf ==
    <<"r", "e", "p", "o", "r", "t", ".", "p", "d", "f">>
report_copy_pdf ==
    <<"r", "e", "p", "o", "r", "t", " ", "-", " ", "C", "o", "p", "y", ".",
      "p", "d", "f">>
notes_copy_txt ==
    <<"n", "o", "t", "e", "s", " ", "c", "o", "p", "y", ".", "t", "x", "t">>
notes_copy_3_txt ==
    <<"n", "o", "t", "e", "s", " ", "c", "o", "p", "y", " ", "3", ".", "t",
      "x", "t">>
notes_txt ==
    <<"n", "o", "t", "e", "s", ".", "t", "x", "t">>
archive_1_tar_gz ==
    <<"a", "r", "c", "h", "i", "v", "e", "(", "1", ")", ".", "t", "a", "r",
      ".", "g", "z">>

Examples ==
    {report_copy_2_pdf, notes_copy_txt, notes_copy_3_txt, archive_1_tar_gz}

NormInputs ==
    {Flatten(ps) : ps \in SeqsUpTo(Pieces, MaxPieces)} \cup Examples

InitNorm ==
    /\ args = <<>>
    /\ fs = {}
    /\ fs_before = {}
    /\ MainIdle
    /\ nf_name \in NormInputs
    /\ nf_out = <<>>

NormApply ==
    /\ Len(nf_out) < MaxApply
    /\ nf_out' = Append(nf_out,
                        normalize_filename(IF nf_out = <<>> THEN nf_name
                                           ELSE nf_out[Len(nf_out)]))
    /\ UNCHANGED <<pc, args, dry_run, fs, fs_before, iter_order, idx, stdout,
                   stderr, nf_name, scanVars, reportVars, answerVars,
                   deleteVars>>

NextNorm == NormApply

SpecNorm == InitNorm /\ [][NextNorm]_vars

(***************************************************************************)
(* What a run shows: read off the collected records and the output.        *)
(***************************************************************************)
Records ==
    UNION {Range(hashmap_name[k]) : k \in DOMAIN hashmap_name}

\* The duplicate sets of the collected records: the records of one normalized
\* filename and one size, when there are several.
DuplicateSets ==
    {D \in {{r \in Range(hashmap_name[k]) : r.size = sz} :
                k \in DOMAIN hashmap_name, sz \in Sizes} : Cardinality(D) > 1}

PathsOf(D) == {r.path : r \in D}

Tagged1(out, tags) == {i \in 1..Len(out) : out[i][1] \in tags}

\* How many lines of out carry one of the tags and the path.
Count(out, tags, path) ==
    Cardinality({i \in Tagged1(out, tags) : out[i][2] = path})

DeleteTags == {"WouldDelete", "WillDelete"}

\* The paths printed as kept and as to delete.
ReportedKeepers == {stdout[i][2] : i \in Tagged1(stdout, {"Keeping"})}
ReportedDeletions == {stdout[i][2] : i \in Tagged1(stdout, DeleteTags)}

\* The "--- Duplicate Set ---" line under which line i of stdout stands.
BlockOf(i) ==
    LET heads == {h \in Tagged1(stdout, {"DuplicateSet"}) : h <= i}
    IN  CHOOSE h \in heads : \A g \in heads : g <= h

\* Two paths printed as members (kept or to delete) of one duplicate set.
CoReported(p, q) ==
    \E i, j \in Tagged1(stdout, {"Keeping"} \cup DeleteTags) :
        /\ stdout[i][2] = p
        /\ stdout[j][2] = q
        /\ BlockOf(i) = BlockOf(j)

Prompted == Tagged1(stdout, {"ProceedPrompt"}) # {}

\* The loop of step 2 has ended and the run has printed what follows it; the
\* report lines of stdout do not change after that.
ReportComplete ==
    pc \in {"no_duplicates", "dry_run_done", "awaiting_confirmation"}

YesAnswers == {<<"y">>, <<"y", "e", "s">>}

(***************************************************************************)
(* Claims.                                                                 *)
(***************************************************************************)
\* C1: in a dry run the directory stays as it was, no removal is attempted
\* and no confirmation prompt is issued, with or without duplicate sets.
DryRunPurity ==
    dry_run =>
        /\ fs = fs_before
        /\ removals = <<>>
        /\ deleted_count = 0
        /\ error_count = 0
        /\ ~Prompted
        /\ line = None
        /\ pc \notin {"awaiting_confirmation", "cancelled", "deleting", "done"}

\* A dry run that reported duplicates and ended.
DryRunPurityWitness ==
    /\ dry_run
    /\ pc = "dry_run_done"
    /\ total_files_to_delete >= 2
    /\ fs # {}

\* C2: without --dry-run, an answer that is not y or yes ends the run in
\* CANCELLED, after the cancellation notice, with no removal attempted and
\* the directory as it was.
CancellationPurity ==
    (input # None /\ input[1] \notin YesAnswers) =>
        /\ pc = "cancelled"
        /\ ~dry_run
        /\ fs = fs_before
        /\ removals = <<>>
        /\ deleted_count = 0
        /\ error_count = 0
        /\ Tagged1(stdout, {"DeletingFiles"}) = {}
        /\ stdout[Len(stdout)] = <<"DeletionCancelled">>

\* The answer n was read and the cancellation notice could not be written:
\* the run has ended by the panic of its print, not in CANCELLED and with
\* no notice.
CancellationPurityWitness ==
    /\ pc = "panicked"
    /\ line = Some(<<"n", "\n">>)
    /\ input = Some(<<"n">>)
    /\ Tagged1(stdout, {"DeletionCancelled"}) = {}
    /\ stderr = << <<"Panic", "failed printing to stdout">> >>
    /\ removals = <<>>
    /\ fs = fs_before

\* C3: once the report is complete, every duplicate set has exactly one
\* member printed as kept, that member has the least timestamp of the set,
\* and every other member is printed as to delete exactly once.
KeeperUniqueness ==
    ReportComplete =>
        \A D \in DuplicateSets :
            \E k \in D :
                /\ Count(stdout, {"Keeping"}, k.path) = 1
                /\ Count(stdout, DeleteTags, k.path) = 0
                /\ \A m \in D : k.created <= m.created
                /\ \A m \in D \ {k} :
                       /\ Count(stdout, {"Keeping"}, m.path) = 0
                       /\ Count(stdout, DeleteTags, m.path) = 1

\* A reported set of three in which two members share the least timestamp.
KeeperUniquenessWitness ==
    /\ ReportComplete
    /\ \E D \in DuplicateSets :
          /\ Cardinality(D) = 3
          /\ Cardinality({r \in D : \A m \in D : r.created <= m.created}) = 2

\* C4: once the report is complete, two collected records are printed in the
\* same duplicate set exactly when their normalized filenames are equal and
\* their sizes are equal.
GroupingCorrectness ==
    ReportComplete =>
        LET \* every record with the normalized filename of its path
            named == {<<r, NormalizedNames[r.path]>> : r \in Records}
        IN  \A n1, n2 \in named :
                n1 # n2 =>
                    (CoReported(n1[1].path, n2[1].path) <=>
                        /\ n1[2] = n2[2]
                        /\ n1[1].size = n2[1].size)

\* A name group of three: two of one size, reported together, and a third of
\* another size that is in no set.
GroupingCorrectnessWitness ==
    /\ ReportComplete
    /\ \E r1, r2, r3 \in Records :
          /\ r1 # r2
          /\ CoReported(r1.path, r2.path)
          /\ normalize_filename(r3.path) = normalize_filename(r1.path)
          /\ r3.size # r1.size
          /\ r3.path \notin ReportedKeepers \cup ReportedDeletions

\* C5: in a confirmed run the deletion pass removes what the report
\* announced: no path printed as kept is passed to remove_file, every path
\* passed to it was printed as "Will delete", and when the run has ended
\* the paths passed to remove_file are exactly the paths printed as "Will
\* delete".
PreviewAndActionAgree ==
    (input # None /\ input[1] \in YesAnswers) =>
        LET attempted == Range(removals)
            announced == {stdout[i][2] : i \in Tagged1(stdout, {"WillDelete"})}
        IN  /\ attempted \cap ReportedKeepers = {}
            /\ attempted \subseteq announced
            /\ pc \in {"done", "panicked"} => attempted = announced

\* The answer y was read and "Deleting files..." could not be written: the
\* run has ended with paths announced and none passed to remove_file.
PreviewAndActionAgreeWitness ==
    /\ pc = "panicked"
    /\ input = Some(<<"y">>)
    /\ Tagged1(stdout, {"WillDelete"}) # {}
    /\ Tagged1(stdout, {"DeletingFiles"}) = {}
    /\ removals = <<>>
    /\ fs = fs_before

\* C6: once the deleting phase has begun the run does not end before every
\* path announced for deletion got its removal attempt, whatever became of
\* the earlier ones; when the run is done, every such path got exactly one
\* attempt, a failed removal counted as an error and a successful one as
\* deleted, so the two counts add up to the announced total.
IndependentRemovals ==
    /\ (pc \in {"done", "panicked"}
           /\ Tagged1(stdout, {"DeletingFiles"}) # {}) =>
          ReportedDeletions \subseteq Range(removals)
    /\ pc = "done" =>
        /\ deleted_count + error_count = total_files_to_delete
        /\ Len(removals) = total_files_to_delete
        /\ Range(removals) = ReportedDeletions
        /\ deleted_count = Cardinality(fs_before \ fs)
        /\ error_count = Cardinality(Range(removals) \cap fs)
        /\ error_count = Cardinality(Tagged1(stderr, {"ErrorDeleting"}))
        /\ deleted_count = Cardinality(Tagged1(stdout, {"Deleted"}))

\* A removal has failed, the report of the failure could not be written
\* and the run has ended with an announced file never given to remove_file.
IndependentRemovalsWitness ==
    /\ pc = "panicked"
    /\ Len(removals) = 1
    /\ removals[1] \in fs
    /\ stderr = << <<"Panic", "failed printing to stderr">> >>
    /\ ReportedDeletions \ Range(removals) # {}
    /\ fs = fs_before

\* The positions at which a run has ended.
Terminal ==
    {"panicked", "read_error", "no_duplicates", "dry_run_done", "cancelled",
     "done"}

\* The steps between the positions of a run.  A panic ends the run where it
\* stands; Group changes no output, so no panic leaves "grouping".
PhaseSteps ==
    { <<"main", "parsed">>, <<"main", "panicked">>,
      <<"parsed", "start">>, <<"parsed", "panicked">>,
      <<"start", "read_dir">>, <<"start", "panicked">>,
      <<"read_dir", "scanning">>, <<"read_dir", "read_error">>,
      <<"read_dir", "panicked">>,
      <<"scanning", "scanning">>, <<"scanning", "panicked">>,
      <<"scanning", "grouping">>, <<"scanning", "reporting">>,
      <<"grouping", "grouping">>, <<"grouping", "reporting">>,
      <<"reporting", "grouping">>,
      <<"reporting", "reporting">>, <<"reporting", "panicked">>,
      <<"reporting", "no_duplicates">>, <<"reporting", "dry_run_done">>,
      <<"reporting", "awaiting_confirmation">>,
      <<"awaiting_confirmation", "cancelled">>,
      <<"awaiting_confirmation", "deleting">>,
      <<"awaiting_confirmation", "panicked">>,
      <<"deleting", "deleting">>, <<"deleting", "done">>,
      <<"deleting", "panicked">> }

\* The steps of the order scanning, grouping, reporting: from reporting
\* there is no way back to grouping.
StatedSteps == PhaseSteps \ { <<"reporting", "grouping">> }

\* A step is one of steps, leaves no terminal position, and changes the
\* directory or calls remove_file only in the deleting phase, after every
\* duplicate set, the summary and the prompt were printed and an affirmative
\* answer was read.
Gate(steps) ==
    /\ <<pc, pc'>> \in steps
    /\ pc \notin Terminal
    /\ (removals' # removals \/ fs' # fs) =>
          /\ pc = "deleting"
          /\ ~dry_run
          /\ input # None
          /\ input[1] \in YesAnswers
          /\ Cardinality(Tagged1(stdout, {"DuplicateSet"}))
                 = Cardinality(DuplicateSets)
          /\ \E i \in Tagged1(stdout, {"Summary"}) :
                /\ stdout[i + 1][1] = "TotalToDelete"
                /\ stdout[i + 2][1] = "ProceedPrompt"
                /\ stdout[i + 3][1] = "DeletingFiles"
                /\ \A j \in Tagged1(stdout, {"DuplicateSet", "Keeping",
                                             "WillDelete"}) : j < i

\* C7 as stated: a run passes through scanning, grouping and reporting in
\* that order, then dry-run-done or awaiting-confirmation, then cancelled or
\* deleting, then done; nothing is removed before report, summary, prompt
\* and an affirmative answer; nothing happens after a terminal state.
ConfirmationGateAsStated == [][Gate(StatedSteps)]_vars

\* C7, amended: after scanning a run groups and reports by turns, one name
\* group at a time (reporting is followed by the grouping of the next name
\* group), then ends with the no-duplicates notice or goes to dry-run-done
\* or awaiting-confirmation, then to cancelled or deleting, then to done; a
\* panic ends it where it stands. It stops for good in a terminal state,
\* and changes the directory or calls remove_file only in the deleting
\* phase, after every duplicate set, the summary and the prompt were
\* printed and an affirmative answer was read.
ConfirmationGate == [][Gate(PhaseSteps)]_vars

\* A removal has happened in the deleting phase.
ConfirmationGateWitness ==
    /\ pc = "deleting"
    /\ removals # <<>>
    /\ fs # fs_before
    /\ input[1] = <<"y", "e", "s">>

\* C8: when the report loop has ended over records that hold no duplicate
\* set, the run prints the "No duplicates found!" notice and ends there, in
\* a dry run or not: nothing but the notice (and the banner of a dry run) is
\* printed, no answer is read, no removal is attempted, and no step
\* follows; the run ends with the notice in no other case.
NoDuplicateShortCircuit ==
    [][ /\ (ReportDone /\ DuplicateSets = {}) =>
              /\ pc' = "no_duplicates"
              /\ stdout' = Banner \o << <<"NoDuplicatesFound">> >>
              /\ line' = None
              /\ removals' = <<>>
              /\ fs' = fs_before
        /\ pc' = "no_duplicates" => DuplicateSets = {}
        /\ pc # "no_duplicates"
      ]_vars

\* A run over a directory of one file, which holds no duplicate set, has
\* ended by the panic of the print of the notice, with nothing printed.
NoDuplicateShortCircuitWitness ==
    /\ pc = "panicked"
    /\ ~dry_run
    /\ Cardinality(fs_before) = 1
    /\ stdout = <<>>
    /\ stderr = << <<"Panic", "failed printing to stdout">> >>

\* The spellings of a word in upper and lower case letters.
CaseVariants(word) ==
    {v \in [1..Len(word) -> Range(Lower) \cup Range(Upper)] :
        \A i \in 1..Len(word) :
            \E n \in 1..Len(Lower) :
                Lower[n] = word[i] /\ v[i] \in {Lower[n], Upper[n]}}

YesSpellings == UNION {CaseVariants(w) : w \in YesAnswers}

\* The line without its line terminator.
Chomp(l) ==
    IF EndsWith(l, <<"\r", "\n">>) THEN DropLast(l, 2)
    ELSE IF EndsWith(l, <<"\n">>) THEN DropLast(l, 1)
    ELSE l

\* C9: once a line was read at the prompt, the run is in the deleting phase
\* (or done after it) exactly when the line is y or yes in upper or lower
\* case letters, and is in CANCELLED, with the cancellation notice printed,
\* exactly when it is any other line, the empty one too.
AffirmativeAnswersAsStated ==
    line # None =>
        /\ pc \in {"deleting", "done"} <=> Chomp(line[1]) \in YesSpellings
        /\ pc = "cancelled" <=> Chomp(line[1]) \notin YesSpellings
        /\ pc = "cancelled" => stdout[Len(stdout)] = <<"DeletionCancelled">>

\* The empty line was read and the cancellation notice could not be
\* written: the run has ended by the panic of its print, not in CANCELLED.
AffirmativeAnswersWitness ==
    /\ pc = "panicked"
    /\ line = Some(<<"\n">>)
    /\ input = Some(<<>>)
    /\ Tagged1(stdout, {"DeletionCancelled"}) = {}
    /\ removals = <<>>

\* The stem of a filename, less its first matching suffix, still ends in a
\* copy suffix.
Stacked(filename) ==
    \E i \in 1..Len(patterns) :
        is_match(patterns[i], StripFirstMatch(StemOf(filename)))

\* C10 as stated: normalizing a normalized filename changes nothing.
NormalizationIdempotence ==
    Len(nf_out) >= 2 => nf_out[2] = nf_out[1]

\* C10, amended: normalizing a normalized filename changes nothing exactly
\* when the filename does not carry two copy suffixes one after the other;
\* when it does, the second call removes one more suffix.
NormalizationIdempotentUnlessStacked ==
    Len(nf_out) >= 2 =>
        /\ nf_out[1] = normalize_filename(nf_name)
        /\ (nf_out[2] = nf_out[1]) <=> ~Stacked(nf_name)
        /\ Stacked(nf_name) => Len(nf_out[2]) < Len(nf_out[1])

\* A filename with one copy suffix and an extension, normalized twice.
NormalizationIdempotentUnlessStackedWitness ==
    /\ Len(nf_out) = 2
    /\ nf_name = <<"a", " ", "c", "o", "p", "y", " ", "2", ".", "t">>
    /\ nf_out[1] = <<"a", ".", "t">>
    /\ nf_out[2] = nf_out[1]

StartsWith(s, pre) ==
    /\ Len(pre) <= Len(s)
    /\ SubSeq(s, 1, Len(pre)) = pre

AllDigits(s) == s # <<>> /\ \A i \in 1..Len(s) : s[i] \in Digits

\* The lengths n such that stem is its first n characters followed by
\* open, one or more digits, and close.
Bases(stem, open, close) ==
    {n \in 0..Len(stem) :
        LET rest == SubSeq(stem, n + 1, Len(stem))
        IN  /\ StartsWith(rest, open)
            /\ EndsWith(rest, close)
            /\ Len(rest) > Len(open) + Len(close)
            /\ AllDigits(SubSeq(rest, Len(open) + 1,
                                Len(rest) - Len(close)))}

\* base with the extension of filename, "." included, when it has one.
WithExtensionOf(base, filename) ==
    IF \A i \in 1..Len(filename) : filename[i] # "." THEN base
    ELSE base \o SubSeq(filename,
                        CHOOSE i \in 1..Len(filename) :
                            /\ filename[i] = "."
                            /\ \A j \in (i + 1)..Len(filename) :
                                   filename[j] # ".",
                        Len(filename))

\* C11: a stem that ends in " - Copy (N)" loses that whole suffix, not only
\* its "(N)" part; a stem that ends in " copy N" loses the whole " copy N",
\* and one that ends in " copy" loses " copy". So "report - Copy (2).pdf"
\* becomes "report.pdf", and "notes copy.txt" and "notes copy 3.txt" both
\* become "notes.txt".
SuffixPrecedence ==
    Len(nf_out) >= 1 =>
        LET stem == StemOf(nf_name)
        IN  /\ \A n \in Bases(stem, <<" ", "-", " ", "C", "o", "p", "y", " ",
                                      "(">>, <<")">>) :
                   nf_out[1] = WithExtensionOf(SubSeq(stem, 1, n), nf_name)
            /\ \A n \in Bases(stem, <<" ", "c", "o", "p", "y", " ">>, <<>>) :
                   nf_out[1] = WithExtensionOf(SubSeq(stem, 1, n), nf_name)
            /\ EndsWith(stem, <<" ", "c", "o", "p", "y">>) =>
                   nf_out[1] = WithExtensionOf(DropLast(stem, 5), nf_name)
            /\ nf_name = report_copy_2_pdf => nf_out[1] = report_pdf
            /\ nf_name \in {notes_copy_txt, notes_copy_3_txt} =>
                   nf_out[1] = notes_txt

\* "report - Copy (2).pdf" has been normalized to "report.pdf".
SuffixPrecedenceWitness ==
    /\ Len(nf_out) >= 1
    /\ nf_name = report_copy_2_pdf
    /\ nf_out[1] = report_pdf
    /\ nf_out[1] # report_copy_pdf

\* The patterns, by their place in the list, that match the stem.
Hits(stem) == {i \in 1..Len(patterns) : is_match(patterns[i], stem)}

\* The extension of a filename, "." included; empty when it has none.
ExtensionOf(filename) ==
    SubSeq(filename, Len(StemOf(filename)) + 1, Len(filename))

\* C12: one call removes at most one suffix: the match of the first pattern,
\* in list order, that matches the stem; no later pattern is tried on what
\* is left, so of two stacked suffixes the inner one stays. A stem that no
\* pattern matches comes back unchanged.
SinglePatternApplication ==
    Len(nf_out) >= 1 =>
        LET stem == StemOf(nf_name)
            hits == Hits(stem)
        IN  IF hits = {} THEN nf_out[1] = nf_name
            ELSE LET first == CHOOSE i \in hits : \A j \in hits : i <= j
                     left == DropLast(stem, MatchLen(patterns[first], stem))
                 IN  /\ nf_out[1] = left \o ExtensionOf(nf_name)
                     /\ Len(left) < Len(stem)
                     /\ Hits(left) \subseteq Hits(StemOf(nf_out[1]))

\* "a (1) copy" has lost " copy", the match of the second pattern, and
\* kept " (1)", which the last two patterns match in what is left.
SinglePatternApplicationWitness ==
    /\ Len(nf_out) >= 1
    /\ nf_name = <<"a", " ", "(", "1", ")", " ", "c", "o", "p", "y">>
    /\ nf_out[1] = <<"a", " ", "(", "1", ")">>
    /\ Hits(nf_out[1]) = {5, 6}

\* C13: the name is split at its last "." only; the patterns see the stem
\* alone and the extension is put back as it was. A suffix that is not at
\* the very end of the stem stays: "archive(1).tar.gz", whose stem is
\* "archive(1).tar", comes back unchanged. A name with no "." and no
\* matching suffix comes back unchanged.
ExtensionPreservation ==
    Len(nf_out) >= 1 =>
        LET dots == {i \in 1..Len(nf_name) : nf_name[i] = "."}
            out == nf_out[1]
        IN  /\ dots = {} =>
                /\ \A i \in 1..Len(out) : out[i] # "."
                /\ StartsWith(nf_name, out)
                /\ Hits(nf_name) = {} => out = nf_name
            /\ dots # {} =>
                LET dot == CHOOSE i \in dots : \A j \in dots : j <= i
                    stem == SubSeq(nf_name, 1, dot - 1)
                    ext == SubSeq(nf_name, dot, Len(nf_name))
                IN  /\ EndsWith(out, ext)
                    /\ StartsWith(stem, DropLast(out, Len(ext)))
                    /\ Hits(stem) = {} => out = nf_name
            /\ nf_name = archive_1_tar_gz => out = archive_1_tar_gz

\* "(34).t.t", whose stem "(34).t" carries its suffix before a ".", has
\* come back unchanged.
ExtensionPreservationWitness ==
    /\ Len(nf_out) >= 1
    /\ nf_name = <<"(", "3", "4", ")", ".", "t", ".", "t">>
    /\ nf_out[1] = nf_name

\* What an iteration of the scan loop can find wrong with an entry it got.
SkipKinds == {"metadata_err", "not_file", "no_filename", "no_time"}

\* The paths of the directory that the scan has passed over without a
\* record, or has not come to because the read of the directory failed.
Skipped == fs_before \ (todo \cup PathsOf(Records))

\* C14: an iteration of the scan loop takes one entry; when the entry is not
\* a regular file, or its entry, metadata, filename or both of its times
\* cannot be had, the records stay as they were, and otherwise one record of
\* the entry is added; either way the scan goes on with the entries that are
\* left, all but the one that could not be read, and ends only when none is
\* left, with the records it had or by a panic. A run never prints as kept or to delete,
\* nor passes to remove_file, a path that has no record.
FailSoftCollection ==
    [][/\ pc = "scanning" =>
            IF pc' = "scanning"
            THEN \/ /\ cur'.kind = "entry_err"
                    /\ todo' \in {todo} \cup {todo \ {path} : path \in todo}
                    /\ hashmap_name' = hashmap_name
                 \/ /\ cur'.kind # "entry_err"
                    /\ \E path \in todo :
                          /\ todo' = todo \ {path}
                          /\ cur'.path = path
                          /\ IF cur'.kind \in SkipKinds
                             THEN /\ hashmap_name' = hashmap_name
                                  /\ path \in Skipped'
                             ELSE /\ cur'.kind = "ok"
                                  /\ PathsOf(Records)'
                                         = PathsOf(Records) \cup {path}
                                  /\ Skipped' = Skipped
            ELSE /\ cur.kind = "entry_err" => Cardinality(cur.unread) <= 1
                 /\ IF pc' = "panicked"
                    THEN Cardinality(todo) <= 1
                    ELSE /\ todo = {}
                         /\ pc' \in {"grouping", "reporting"}
                         /\ hashmap_name' = hashmap_name
       /\ pc' \in {"dry_run_done", "awaiting_confirmation", "done"} =>
            (ReportedKeepers \cup ReportedDeletions \cup Range(removals))'
                \cap Skipped' = {}
      ]_vars

\* The read of the directory has failed after one entry was collected and
\* with two entries not yet read, which are never scanned.
FailSoftCollectionWitness ==
    /\ pc = "scanning"
    /\ cur.kind = "entry_err"
    /\ Cardinality(cur.unread) >= 2
    /\ Cardinality(PathsOf(Records)) = 1
    /\ todo = {}

\* C15: a run that read_dir does not let into the scan prints the error on
\* standard error and ends there: it has no records, has printed nothing
\* else (no report, no "No duplicates found!", no prompt), has read no
\* answer, has attempted no removal, the directory is as it was, and no
\* step follows.
FatalEnumerationFailure ==
    [][ /\ (pc = "read_dir" /\ pc' # "scanning") =>
              /\ pc' = "read_error"
              /\ stderr' = << <<"ErrorReadingDirectory">> >>
              /\ stdout' = Banner
              /\ DOMAIN hashmap_name' = {}
              /\ line' = None
              /\ removals' = <<>>
              /\ deleted_count' = 0
              /\ error_count' = 0
              /\ total_duplicates_found' = 0
              /\ total_files_to_delete' = 0
              /\ fs' = fs_before
        /\ pc # "read_error"
      ]_vars

\* read_dir has failed on a directory that holds duplicates by name, and
\* the error was printed.
FatalEnumerationFailureWitness ==
    /\ pc = "read_error"
    /\ stderr = << <<"ErrorReadingDirectory">> >>
    /\ \E p, q \in fs :
          /\ p # q
          /\ normalize_filename(p) = normalize_filename(q)

\* The sum over the sets of (members - 1).
RECURSIVE Surplus(_)
Surplus(sets) ==
    IF sets = {} THEN 0
    ELSE LET D == CHOOSE D \in sets : TRUE
         IN  (Cardinality(D) - 1) + Surplus(sets \ {D})

\* C16: when the report has ended, the number of duplicate sets it gives is
\* the number of (normalized filename, size) sub-groups with more than one
\* record, which is also the number of sets it printed, and the number of
\* files to delete it gives is the sum over those sets of (members - 1),
\* which is also the number of "Would delete"/"Will delete" lines.
SummaryTotals ==
    ReportComplete =>
        LET sets == DuplicateSets
        IN  /\ total_duplicates_found = Cardinality(sets)
            /\ total_files_to_delete = Surplus(sets)
            /\ Cardinality(Tagged1(stdout, {"DuplicateSet"}))
                   = Cardinality(sets)
            /\ Cardinality(Tagged1(stdout, DeleteTags)) = Surplus(sets)
            /\ IF pc = "no_duplicates"
               THEN /\ sets = {}
                    /\ Tagged1(stdout, {"Summary", "TotalToDelete"}) = {}
               ELSE /\ Cardinality(Tagged1(stdout, {"Summary"})) = 1
                    /\ Cardinality(Tagged1(stdout, {"TotalToDelete"})) = 1
                    /\ \A i \in Tagged1(stdout, {"Summary"}) :
                           stdout[i][2] = Cardinality(sets)
                    /\ \A i \in Tagged1(stdout, {"TotalToDelete"}) :
                           stdout[i][2] = Surplus(sets)

\* The summary of a report of one set of three: one set, two files to
\* delete.
SummaryTotalsWitness ==
    /\ pc = "awaiting_confirmation"
    /\ \E D \in DuplicateSets : Cardinality(D) = 3
    /\ \E i \in 1..Len(stdout) : stdout[i] = <<"Summary", 1>>
    /\ \E i \in 1..Len(stdout) : stdout[i] = <<"TotalToDelete", 2>>

\* C17: when the deletion pass of a run, entered after an affirmative
\* answer, ends with every remove_file it called having succeeded, of every duplicate set exactly
\* one member is left in the directory, one with the least timestamp of
\* the set; every file outside the sets is left; and the run ends with the
\* "Files deleted" line, which gives the number of deletion candidates.
ConfirmedEndToEnd ==
    [][ (/\ pc = "deleting"
         /\ pc' \in {"done", "panicked"}
         /\ input' # None
         /\ input'[1] \in YesAnswers
         /\ Range(removals') \cap fs' = {}) =>
            /\ \A D \in DuplicateSets :
                   \E k \in D :
                       /\ PathsOf(D) \cap fs' = {k.path}
                       /\ \A m \in D : k.created <= m.created
            /\ fs_before \ fs'
                   \subseteq UNION {PathsOf(D) : D \in DuplicateSets}
            /\ Cardinality(fs_before \ fs') = Surplus(DuplicateSets)
            /\ pc' = "done"
            /\ stdout'[Len(stdout')]
                   = <<"FilesDeleted", Surplus(DuplicateSets)>>
            /\ stdout'[Len(stdout') - 1] = <<"DeletionComplete">>
      ]_vars

\* A confirmed run has removed a file, could not print "Deleted", and has
\* ended with another member of the set, announced for deletion, left
\* beside the keeper.
ConfirmedEndToEndWitness ==
    /\ pc = "panicked"
    /\ input = Some(<<"y">>)
    /\ Len(removals) = 1
    /\ removals[1] \notin fs
    /\ stderr = << <<"Panic", "failed printing to stdout">> >>
    /\ ReportedDeletions \ Range(removals) # {}
    /\ ReportedDeletions \ Range(removals) \subseteq fs
    /\ ReportedKeepers \subseteq fs

\* The places, in collection order, of the members of one size in a name
\* group, and the first of those with the least timestamp.
PlacesOfSize(v, size) == {i \in 1..Len(v) : v[i].size = size}

FirstEarliest(v, places) ==
    CHOOSE i \in places :
        /\ \A j \in places : v[i].created <= v[j].created
        /\ \A j \in places : v[j].created = v[i].created => i <= j

\* C18: the record collected for an entry carries the entry's creation time
\* when it has one and its modified time otherwise. In every duplicate set,
\* the member printed as kept is the first, in collection order, of the
\* members with the least timestamp, and it is the one member of the set
\* that the deletion pass of a run that is done has not passed to
\* remove_file.
TimestampFallbackAndTieBreak ==
    /\ (pc = "scanning" /\ cur.kind = "ok") =>
           \E r \in Records :
               /\ r.path = cur.path
               /\ r.size = cur.size
               /\ r.created = IF cur.created # None THEN cur.created[1]
                              ELSE cur.modified[1]
    /\ (ReportComplete \/ pc = "done") =>
           \A k \in DOMAIN hashmap_name :
               LET v == hashmap_name[k]
               IN  \A size \in Sizes :
                       LET places == PlacesOfSize(v, size)
                       IN  Cardinality(places) > 1 =>
                               LET first == FirstEarliest(v, places)
                                   others == {v[i].path :
                                                 i \in places \ {first}}
                               IN  /\ v[first].path \in ReportedKeepers
                                   /\ others \cap ReportedKeepers = {}
                                   /\ pc = "done" =>
                                          /\ v[first].path
                                                 \notin Range(removals)
                                          /\ others
                                                 \subseteq Range(removals)

\* A run is done over a set whose first two members, in collection order,
\* share the least timestamp and whose third is later: the first is left,
\* the second is gone.
TimestampFallbackAndTieBreakWitness ==
    /\ pc = "done"
    /\ \E k \in DOMAIN hashmap_name :
          LET v == hashmap_name[k]
          IN  /\ Len(v) = 3
              /\ v[1].size = v[2].size
              /\ v[2].size = v[3].size
              /\ v[1].created = v[2].created
              /\ v[2].created < v[3].created
              /\ v[1].path \in fs
              /\ v[2].path \notin fs
              /\ v[1].path \in ReportedKeepers

\* The keeper of every duplicate set, as the records give it whatever the
\* order the maps iterate in: the first, in collection order, of the members
\* with the least timestamp.
Keepers ==
    {hashmap_name[g[1]][FirstEarliest(hashmap_name[g[1]],
                                      PlacesOfSize(hashmap_name[g[1]],
                                                   g[2]))].path :
        g \in {h \in (DOMAIN hashmap_name) \X Sizes :
                  Cardinality(PlacesOfSize(hashmap_name[h[1]], h[2])) > 1}}

\* The deletion candidates: the members of the duplicate sets but their
\* keepers.
Candidates == UNION {PathsOf(D) : D \in DuplicateSets} \ Keepers

\* The paths of the records that are in no duplicate set.
UniqueFiles == PathsOf(Records) \ UNION {PathsOf(D) : D \in DuplicateSets}

\* C19: remove_file is called in the deletion pass only, and only on
\* deletion candidates; a file is gone only if remove_file was called on
\* it. So the keeper of every set, every file whose normalized filename and
\* size no other file has, and every entry the scan passed over are still
\* there, and of every duplicate set a member is left, however the run
\* ends: a step that calls remove_file or changes the directory is a step
\* of the deletion pass, calls it on candidates only, removes only what it
\* called it on, and leaves the keepers and the files outside the sets.
FrameOfDeletion ==
    /\ [](IF pc \in {"deleting", "done"}
          THEN LET attempted == Range(removals)
                   sets == DuplicateSets
                   members == UNION {PathsOf(D) : D \in sets}
                   keepers == Keepers
                   \* the files in no set and the entries without a record
                   outside == fs_before \ members
               IN  /\ attempted \subseteq members \ keepers
                   /\ attempted \cap (keepers \cup outside) = {}
                   /\ fs_before \ fs \subseteq attempted
                   /\ keepers \cup outside \subseteq fs
                   /\ \A D \in sets : PathsOf(D) \cap fs # {}
          ELSE IF pc = "panicked"
          THEN /\ fs \subseteq fs_before
               /\ fs_before \ fs \subseteq Range(removals)
          ELSE /\ removals = <<>>
               /\ fs = fs_before)
    /\ [][ (removals' # removals \/ fs' # fs) =>
              LET called == Range(removals') \ Range(removals)
                  members == UNION {PathsOf(D) : D \in DuplicateSets}
              IN  /\ pc = "deleting"
                  /\ SubSeq(removals', 1, Len(removals)) = removals
                  /\ called \subseteq Candidates
                  /\ called \cap Keepers = {}
                  /\ fs' \subseteq fs
                  /\ fs \ fs' \subseteq called
                  /\ Keepers \cup (fs_before \ members) \subseteq fs'
                  /\ \A D \in DuplicateSets : PathsOf(D) \cap fs' # {}
          ]_vars

\* A run is done that deleted from one set and had, besides, a file in no
\* set and an entry the scan passed over.
FrameOfDeletionWitness ==
    /\ pc = "done"
    /\ deleted_count >= 1
    /\ UniqueFiles # {}
    /\ Skipped # {}
    /\ Keepers # {}
    /\ UniqueFiles \cup Skipped = fs_before \ (Keepers \cup Candidates)
    /\ fs = fs_before \ Candidates

\* C20: what a run keeps, announces, attempts and counts is given by the
\* collected records alone, whatever the order in which the name map and
\* the size maps iterate: when the report has ended the paths printed as
\* kept are the keepers, the paths printed as to delete are the deletion
\* candidates and the totals are those of the duplicate sets (the report
\* lines and the totals do not change after that); when the run is done
\* the paths passed to remove_file are the deletion candidates. No
\* record is in two duplicate sets and, however the run ends, no path is
\* passed to remove_file twice.
MapOrderIndependence ==
    /\ ReportComplete =>
           LET keepers == Keepers
               candidates == Candidates
           IN  /\ ReportedKeepers = keepers
               /\ ReportedDeletions = candidates
               /\ total_duplicates_found = Cardinality(keepers)
               /\ total_files_to_delete = Cardinality(candidates)
               /\ \A D1, D2 \in DuplicateSets : D1 # D2 => D1 \cap D2 = {}
    /\ Len(removals) = Cardinality(Range(removals))
    /\ pc = "done" => Range(removals) = Candidates

\* A run over one name group with two duplicate sets is done: the size map
\* of the report and the size map of the deletion pass iterated in opposite
\* orders, so the file announced first was removed last.
MapOrderIndependenceWitness ==
    /\ pc = "done"
    /\ DOMAIN hashmap_name = { <<"a", ".", "t">> }
    /\ Cardinality(DuplicateSets) = 2
    /\ Len(removals) = 2
    /\ \E i, j \in Tagged1(stdout, {"WillDelete"}) :
          /\ i < j
          /\ stdout[i][2] = removals[2]
          /\ stdout[j][2] = removals[1]

=============================================================================
